---- MODULE Spec2Model ----
(***************************************************************************)
(* The note store of the piano-roll editor (class Editor), the pointer     *)
(* handlers that drive it (class Interactions) and the undo manager that   *)
(* wraps its mutations.                                                    *)
(*                                                                         *)
(* A Note is an object: the store's maps, the drag handler's closure and   *)
(* the caller all hold the same object.  obj is the heap (id -> fields);   *)
(* notesMap and tempNotesMap are the two Map<number, Note> in insertion    *)
(* order, as sequences of ids.  The undo manager, the Note class, the      *)
(* constants and the layout are not among the sources: they follow the     *)
(* specification text.                                                     *)
(***************************************************************************)
EXTENDS Integers, Sequences, FiniteSets, TLC

VARIABLES
  notesMap,               \* Editor.notesMap: ids in Map insertion order
  tempNotesMap,           \* Editor.tempNotesMap: ids in Map insertion order
  obj,                    \* the Note objects: id -> fields (NoNote: no live object)
  nextId,                 \* the id the next constructed Note gets
  generationMasks,        \* Editor.generationMasks: one index array per voice
  currentlyPlayingNotes,  \* Editor.currentlyPlayingNotes: the ids of the Set<Note>
  undo,                   \* the undo manager: isOpen, before, undoStack, redoStack
  mouseUpListener,        \* which handler's mouseup listener is on the document
  dragNote,               \* the note captured by handleNoteMouseDown's closure (0: none)
  noteDragStartPosition,  \* Interactions.noteDragStartPosition
  noteDragStartPitch,     \* Interactions.noteDragStartPitch
  isEraseToolDragging,    \* Interactions.isEraseToolDragging
  isMaskToolDragging,     \* Interactions.isMaskToolDragging
  maskLaneVoice,          \* voiceIndex captured by handleMaskLaneMouseDown's closure
  maskLaneDragStartX,     \* Interactions.maskLaneDragStartX
  maskLaneDragX,          \* Interactions.maskLaneDragX
  maskToolDragStartXY,    \* Interactions.maskToolDragStartXY
  maskToolDragXY,         \* Interactions.maskToolDragXY
  loopStart,              \* engine.loopStart
  loopEnd,                \* engine.loopEnd
  loopStartDragStartPosition,  \* Interactions.loopStartDragStartPosition
  loopEndDragStartPosition,    \* Interactions.loopEndDragStartPosition
  trimmed,                \* the note last passed to trimOverlappingVoices (0: none)
  maskTrip,               \* the addMask call just made, and whether its removeMask followed
  raised,                 \* the error the last call ended with ("none": it returned)
  input,                  \* the argument a geometry function is called with
  output,                 \* what the last query or geometry function returned
  handled                 \* how many events and calls were handled so far

storeVars == <<notesMap, tempNotesMap, obj, nextId>>
dragVars == <<dragNote, noteDragStartPosition, noteDragStartPitch>>
laneVars == <<maskLaneVoice, maskLaneDragStartX, maskLaneDragX>>
maskToolVars == <<maskToolDragStartXY, maskToolDragXY>>
loopVars == <<loopStart, loopEnd, loopStartDragStartPosition, loopEndDragStartPosition>>
vars == <<notesMap, tempNotesMap, obj, nextId, generationMasks, undo,
          mouseUpListener, dragNote, noteDragStartPosition, noteDragStartPitch,
          isEraseToolDragging, isMaskToolDragging, maskLaneVoice,
          maskLaneDragStartX, maskLaneDragX, maskToolDragStartXY, maskToolDragXY,
          loopStart, loopEnd, loopStartDragStartPosition, loopEndDragStartPosition,
          trimmed, maskTrip, handled,
          currentlyPlayingNotes, raised, input, output>>

(***************************************************************************)
(* Program constants, scaled down.                                         *)
(***************************************************************************)
TOTAL_SIXTEENTHS == 4
MIN_PITCH == 60
MAX_PITCH == 61
DEFAULT_NOTES == << <<60, 2>> >>
quantizeStep == 2
sixteenthWidth == 1
noteHeight == 1

SOPRANO == 0
Voices == 0 .. 3
USER == "USER"
AGENT == "AGENT"

(***************************************************************************)
(* Bounds of the model.                                                    *)
(***************************************************************************)
MaxId == 3        \* Note objects constructed in one run
MaxUndo == 2      \* depth of the undo stack
MaxLeft == 2      \* how far left of step 0 a dragged note is followed
MaxHandled == 5   \* events and calls followed in one run

Ids == 1 .. MaxId

\* pointer displacements of a mousemove, in pixels
DeltaXs == -2 .. 2
DeltaYs == -1 .. 1
Pitches == MIN_PITCH .. MAX_PITCH

(***************************************************************************)
(* Sequence helpers.                                                       *)
(***************************************************************************)
Range(s) == {s[i] : i \in 1 .. Len(s)}

Min(a, b) == IF a <= b THEN a ELSE b
Max(a, b) == IF a >= b THEN a ELSE b

\* Array.prototype.sort((a, b) => a - b) of the values of a Set<number>
RECURSIVE SortedSeq(_)
SortedSeq(S) ==
  IF S = {} THEN <<>>
  ELSE LET m == CHOOSE x \in S : \A y \in S : x <= y
       IN <<m>> \o SortedSeq(S \ {m})

\* _.range(a, b): a, a+1, .., b-1 (empty when b <= a)
range(a, b) == [i \in 1 .. Max(b - a, 0) |-> a + i - 1]

(***************************************************************************)
(* Note.                                                                   *)
(***************************************************************************)
NoNote == [id |-> 0, pitch |-> 0, position |-> 0, duration |-> 0,
           voice |-> 0, source |-> "NONE", isPlaying |-> FALSE, isMasked |-> FALSE]

Note(id, pitch, position, duration, source, voice) ==
  [id |-> id, pitch |-> pitch, position |-> position, duration |-> duration,
   voice |-> voice, source |-> source, isPlaying |-> FALSE, isMasked |-> FALSE]

start(n) == n.position
end(n) == n.position + n.duration

\* moveStart(x): the start moves to x, the end stays
moveStart(n, x) == [n EXCEPT !.position = x, !.duration = end(n) - x]
\* moveEnd(x): the end moves to x, the start stays
moveEnd(n, x) == [n EXCEPT !.duration = x - n.position]

(***************************************************************************)
(* Map<number, Note> as a sequence of keys in insertion order.             *)
(***************************************************************************)
MapSet(m, id) == IF id \in Range(m) THEN m ELSE Append(m, id)
MapDelete(m, id) == SelectSeq(m, LAMBDA k : k # id)

\* Objects nobody references any more are dropped from the heap.
Collect(ob, live) == [i \in Ids |-> IF i \in live THEN ob[i] ELSE NoNote]

(***************************************************************************)
(* Editor: queries.                                                        *)
(***************************************************************************)
tempNotes(tm) == tm
allNotes(nm, tm) == nm \o tempNotes(tm)

\* an overlaps that misses the note that starts left of the range and reaches
\* into it
overlapsStartInside(n, positionRange, pitchRange) ==
  /\ n.pitch >= pitchRange[1] /\ n.pitch <= pitchRange[2]
  /\ n.position >= positionRange[1] /\ n.position < positionRange[2]

\* Editor.overlaps(note, positionRange, pitchRange)
overlaps(n, positionRange, pitchRange) ==
  LET startPosition == positionRange[1]
      endPosition == positionRange[2]
      startValue == pitchRange[1]
      endValue == pitchRange[2]
  IN IF n.pitch < startValue \/ n.pitch > endValue THEN FALSE
     ELSE IF n.position >= startPosition /\ n.position < endPosition THEN TRUE
     ELSE IF n.position < startPosition /\ n.position + n.duration > startPosition
          THEN TRUE
     ELSE FALSE

(***************************************************************************)
(* Editor: the non-undoable internals.                                     *)
(***************************************************************************)
_addNote(nm, id) == MapSet(nm, id)
_removeNote(nm, id) == MapDelete(nm, id)

\* Editor.replaceAllNotes(notes): clear, then _addNote each
RECURSIVE AddEach(_, _)
AddEach(nm, ids) ==
  IF ids = <<>> THEN nm ELSE AddEach(_addNote(nm, Head(ids)), Tail(ids))

replaceAllNotesKeep(nm, notes) ==
  AddEach(nm, [i \in 1 .. Len(notes) |-> notes[i].id])

replaceAllNotes(nm, notes) ==
  AddEach(<<>>, [i \in 1 .. Len(notes) |-> notes[i].id])

\* the heap after the notes of a snapshot were put back as objects
Restored(ob, notes) ==
  [i \in Ids |-> IF \E k \in 1 .. Len(notes) : notes[k].id = i
                 THEN (CHOOSE n \in Range(notes) : n.id = i)
                 ELSE ob[i]]

(***************************************************************************)
(* The undo manager.                                                       *)
(***************************************************************************)
\* the persistent notes, in order, as values
Snapshot(nm, ob) == [i \in 1 .. Len(nm) |-> ob[nm[i]]]

beginUndoable(u, nm, ob) ==
  IF u.isOpen THEN u
  ELSE [u EXCEPT !.isOpen = TRUE, !.before = Snapshot(nm, ob)]

completeUndoable(u, nm, ob) ==
  IF ~u.isOpen THEN u
  ELSE LET after == Snapshot(nm, ob)
       IN IF u.before # after
          THEN [isOpen |-> FALSE, before |-> <<>>,
                undoStack |-> Append(u.undoStack,
                                     [before |-> u.before, after |-> after]),
                redoStack |-> <<>>]
          ELSE [u EXCEPT !.isOpen = FALSE, !.before = <<>>]

\* @undoable(): the wrapper begins before the method and completes after it,
\* unless it found a transaction open already (u0: the manager as found)
undoableBegin(u0, nm, ob) ==
  IF u0.isOpen THEN u0 ELSE beginUndoable(u0, nm, ob)

undoableEnd(u0, u, nm, ob) ==
  IF u0.isOpen THEN u ELSE completeUndoable(u, nm, ob)

\* a wrapped method that takes the store from (nm0, ob0) to (nm1, ob1)
undoable(u0, nm0, ob0, nm1, ob1) ==
  undoableEnd(u0, undoableBegin(u0, nm0, ob0), nm1, ob1)


(***************************************************************************)
(* Geometry.                                                               *)
(***************************************************************************)
\* Math.round(a / b), b > 0: halves go up
Round(a, b) == (2 * a + b) \div (2 * b)
\* Math.floor(a / b) and Math.ceil(a / b), b > 0
Floor(a, b) == a \div b
Ceil(a, b) == -((-a) \div b)

\* quantizePosition(position) with fn = Math.round
quantizePosition(position) == Round(position, quantizeStep) * quantizeStep

\* _.clamp(number, upper): with two arguments lodash bounds from above only
clampPosition(position) == Min(position, TOTAL_SIXTEENTHS - 1)

\* _.clamp(pitch, MIN_PITCH, MAX_PITCH)
clampPitch(pitch) == Min(Max(pitch, MIN_PITCH), MAX_PITCH)

\* makeNoteScale(MAX_PITCH, MIN_PITCH): the rows of the grid, top row first
getValueFromScaleIndex(scaleIndex) == MAX_PITCH - scaleIndex

nDivisions == TOTAL_SIXTEENTHS \div quantizeStep

(***************************************************************************)
(* Editor: the public mutations, as functions of the store.                *)
(***************************************************************************)
\* a startNoteDrag that opens no transaction
startNoteDragNoBegin(u, nm, ob) == u

\* Editor.startNoteDrag(): undo.beginUndoable()
startNoteDrag(u, nm, ob) == beginUndoable(u, nm, ob)

\* clearAgentNotes without the test of the source: every entry goes
clearAgentNotesAnySource(nm, ob) == SelectSeq(nm, LAMBDA k : FALSE)

\* Editor.clearAgentNotes: delete every AGENT note of notesMap
clearAgentNotes(nm, ob) == SelectSeq(nm, LAMBDA k : ob[k].source # AGENT)

\* Editor.endNoteDrag(note), the loop: a different note of allNotes on the
\* dragged note's cell makes the loop delete note.id from notesMap
endNoteDrag(nm, tm, ob, id) ==
  IF \E k \in Range(allNotes(nm, tm)) :
       /\ k # id
       /\ ob[k].position = ob[id].position
       /\ ob[k].pitch = ob[id].pitch
  THEN MapDelete(nm, id)
  ELSE nm

(***************************************************************************)
(* The state after construction.                                           *)
(***************************************************************************)
\* constructor: the default notes, one after the other from position 0
RECURSIVE DefaultPosition(_)
DefaultPosition(i) ==
  IF i = 1 THEN 0 ELSE DefaultPosition(i - 1) + DEFAULT_NOTES[i - 1][2]

DefaultObj ==
  [i \in Ids |->
     IF i <= Len(DEFAULT_NOTES)
     THEN Note(i, DEFAULT_NOTES[i][1], DefaultPosition(i), DEFAULT_NOTES[i][2],
               USER, SOPRANO)
     ELSE NoNote]

NoMasks == <<<<>>, <<>>, <<>>, <<>>>>

InitEditor ==
  /\ notesMap = [i \in 1 .. Len(DEFAULT_NOTES) |-> i]
  /\ tempNotesMap = <<>>
  /\ obj = DefaultObj
  /\ nextId = Len(DEFAULT_NOTES) + 1
  /\ generationMasks = NoMasks

InitUndo ==
  undo = [isOpen |-> FALSE, before |-> <<>>, undoStack |-> <<>>, redoStack |-> <<>>]

InitInteractions ==
  /\ mouseUpListener = "none"
  /\ dragNote = 0
  /\ noteDragStartPosition = 0
  /\ noteDragStartPitch = 0
  /\ isEraseToolDragging = FALSE
  /\ isMaskToolDragging = FALSE
  /\ maskLaneVoice = 0
  /\ maskLaneDragStartX = 0
  /\ maskLaneDragX = 0
  /\ maskToolDragStartXY = <<0, 0>>
  /\ maskToolDragXY = <<0, 0>>
  /\ loopStartDragStartPosition = 0
  /\ loopEndDragStartPosition = 0

\* the engine as constructed: the loop spans the timeline
InitEngine ==
  /\ loopStart = 0
  /\ loopEnd = TOTAL_SIXTEENTHS

\* no addMask was the last call
NoTrip == [stage |-> 0, voiceIndex |-> 0, mask |-> <<>>, initial |-> <<>>]

\* nothing was asked and nothing returned yet
NoInput == [x |-> 0, step |-> 1]
NoOutput == [op |-> "none", value |-> 0]

\* everything but the loop markers and the argument of the geometry functions
InitSession ==
  /\ InitEditor /\ InitUndo /\ InitInteractions
  /\ currentlyPlayingNotes = {}
  /\ trimmed = 0 /\ maskTrip = NoTrip /\ handled = 0
  /\ raised = "none" /\ output = NoOutput

\* everything but the argument of the geometry functions
InitProgram == InitSession /\ InitEngine

Init == InitProgram /\ input = NoInput

\* one more event or call
Tick ==
  /\ handled < MaxHandled
  /\ handled' = handled + 1

\* one more event or call, none of the mask tool's drag and none of a loop
\* marker
Step ==
  /\ Tick
  /\ UNCHANGED <<maskToolVars, loopVars>>

\* one more event or call was handled: it returned, it was no query and it
\* did not touch the playing notes
Handled ==
  /\ Step
  /\ raised' = "none"
  /\ UNCHANGED <<currentlyPlayingNotes, input, output>>

\* a call other than trimOverlappingVoices
Call == Handled /\ trimmed' = 0

\* an event or call other than trimOverlappingVoices, addMask and removeMask
Event == Call /\ maskTrip' = NoTrip

(***************************************************************************)
(* Steps.                                                                  *)
(***************************************************************************)
\* the store after a handler: the maps, and the heap without dead objects
Store(nm, tm, ob, drag) ==
  /\ notesMap' = nm
  /\ tempNotesMap' = tm
  /\ obj' = Collect(ob, Range(nm) \cup Range(tm) \cup {drag} \cup currentlyPlayingNotes)

\* the undo manager after a handler; the model follows MaxUndo steps
Manager(u) ==
  /\ Len(u.undoStack) <= MaxUndo
  /\ undo' = u

PointerFree == mouseUpListener = "none"

\* Interactions.handleGridClick with the DRAW tool: editor.addNote(new Note(..))
GridClick(scaleIndex, divisionIndex) ==
  /\ Event
  /\ PointerFree
  /\ nextId <= MaxId
  /\ LET note == Note(nextId, getValueFromScaleIndex(scaleIndex),
                      divisionIndex * quantizeStep, quantizeStep, USER, SOPRANO)
         ob1 == [obj EXCEPT ![nextId] = note]
         nm1 == _addNote(notesMap, nextId)
     IN /\ Store(nm1, tempNotesMap, ob1, 0)
        /\ Manager(undoable(undo, notesMap, obj, nm1, ob1))
  /\ nextId' = nextId + 1
  /\ UNCHANGED <<generationMasks, mouseUpListener, dragVars, isEraseToolDragging,
                 isMaskToolDragging, laneVars>>

\* Interactions.handleNoteMouseDown(note): editor.startNoteDrag(), remember
\* where the note was, listen for mousemove and mouseup
NoteMouseDown(id) ==
  /\ Event
  /\ PointerFree
  /\ id \in Range(allNotes(notesMap, tempNotesMap))
  /\ Manager(startNoteDrag(undo, notesMap, obj))
  /\ noteDragStartPosition' = obj[id].position
  /\ noteDragStartPitch' = obj[id].pitch
  /\ dragNote' = id
  /\ mouseUpListener' = "note"
  /\ UNCHANGED <<storeVars, generationMasks, isEraseToolDragging,
                 isMaskToolDragging, laneVars>>

\* Interactions.handleNoteDrag(note): a mousemove deltaX, deltaY pixels from
\* where the button went down
handleNoteDrag(ob, id, deltaX, deltaY) ==
  LET deltaPosition == Floor(deltaX, sixteenthWidth)
      deltaPitch == Floor(deltaY, noteHeight)
      deltaQuantized == quantizePosition(deltaPosition)
      nextPosition == clampPosition(noteDragStartPosition + deltaQuantized)
      nextValue == clampPitch(noteDragStartPitch - deltaPitch)
  IN IF nextPosition # ob[id].position \/ nextValue # ob[id].pitch
     THEN [ob EXCEPT ![id].position = nextPosition, ![id].pitch = nextValue]
     ELSE ob

NoteDrag(deltaX, deltaY) ==
  /\ Event
  /\ mouseUpListener = "note"
  /\ LET ob1 == handleNoteDrag(obj, dragNote, deltaX, deltaY)
     IN /\ ob1[dragNote].position >= -MaxLeft
        /\ obj' = ob1
  /\ UNCHANGED <<notesMap, tempNotesMap, nextId, generationMasks, undo,
                 mouseUpListener, dragVars, isEraseToolDragging,
                 isMaskToolDragging, laneVars>>

\* the mouseUp of handleNoteMouseDown: editor.endNoteDrag(note), which ends
\* with undo.completeUndoable(); the listeners are removed
NoteMouseUp ==
  /\ Event
  /\ mouseUpListener = "note"
  /\ LET nm1 == endNoteDrag(notesMap, tempNotesMap, obj, dragNote)
     IN /\ Store(nm1, tempNotesMap, obj, 0)
        /\ Manager(completeUndoable(undo, nm1, obj))
  /\ dragNote' = 0
  /\ mouseUpListener' = "none"
  \* the start fields are read by mousemove only, and the next mousedown
  \* overwrites them: the model forgets them here
  /\ noteDragStartPosition' = 0
  /\ noteDragStartPitch' = 0
  /\ UNCHANGED <<nextId, generationMasks, isEraseToolDragging, isMaskToolDragging,
                 laneVars>>

\* undo(): pop a step, replaceAllNotes(before), push it onto the redo stack
Undo ==
  /\ Event
  /\ PointerFree
  /\ undo.undoStack # <<>>
  /\ LET step == undo.undoStack[Len(undo.undoStack)]
         nm1 == replaceAllNotes(notesMap, step.before)
     IN /\ Store(nm1, tempNotesMap, Restored(obj, step.before), 0)
        /\ undo' = [undo EXCEPT
                      !.undoStack = SubSeq(undo.undoStack, 1, Len(undo.undoStack) - 1),
                      !.redoStack = Append(undo.redoStack, step)]
  /\ UNCHANGED <<nextId, generationMasks, mouseUpListener, dragVars,
                 isEraseToolDragging, isMaskToolDragging, laneVars>>

\* redo(): pop a step of the redo stack, replaceAllNotes(after), push it back
Redo ==
  /\ Event
  /\ PointerFree
  /\ undo.redoStack # <<>>
  /\ LET step == undo.redoStack[Len(undo.redoStack)]
         nm1 == replaceAllNotes(notesMap, step.after)
     IN /\ Store(nm1, tempNotesMap, Restored(obj, step.after), 0)
        /\ undo' = [undo EXCEPT
                      !.redoStack = SubSeq(undo.redoStack, 1, Len(undo.redoStack) - 1),
                      !.undoStack = Append(undo.undoStack, step)]
  /\ UNCHANGED <<nextId, generationMasks, mouseUpListener, dragVars,
                 isEraseToolDragging, isMaskToolDragging, laneVars>>

\* the object of an AGENT note the generation engine built
AgentNote(id, in) == Note(id, in.pitch, in.position, in.duration, AGENT, in.voice)

\* the heap with the notes of a new sequence, given ids from nextId on
RECURSIVE WithNew(_, _, _)
WithNew(ob, ins, id) ==
  IF ins = <<>> THEN ob
  ELSE WithNew([ob EXCEPT ![id] = AgentNote(id, Head(ins))], Tail(ins), id + 1)

NewIds(ins) == [i \in 1 .. Len(ins) |-> nextId + i - 1]

\* addAgentNotes without its own @undoable: the inner clearAgentNotes is the
\* only wrapped call
AddAgentNotesUnwrapped(ins, replace) ==
  /\ Event
  /\ nextId + Len(ins) - 1 <= MaxId
  /\ LET ob1 == WithNew(obj, ins, nextId)
         nm1 == IF replace THEN clearAgentNotes(notesMap, ob1) ELSE notesMap
         u2 == IF replace THEN undoable(undo, notesMap, ob1, nm1, ob1) ELSE undo
         nm2 == AddEach(nm1, NewIds(ins))
     IN /\ Store(nm2, tempNotesMap, ob1, dragNote)
        /\ Manager(u2)
  /\ nextId' = nextId + Len(ins)
  /\ UNCHANGED <<generationMasks, mouseUpListener, dragVars, isEraseToolDragging,
                 isMaskToolDragging, laneVars>>

\* Editor.addAgentNotes(sequence, replace): @undoable; with replace it calls
\* clearAgentNotes, itself @undoable, and then _addNote for every note
AddAgentNotes(ins, replace) ==
  /\ Event
  /\ nextId + Len(ins) - 1 <= MaxId
  /\ LET ob1 == WithNew(obj, ins, nextId)
         u1 == undoableBegin(undo, notesMap, ob1)
         nm1 == IF replace THEN clearAgentNotes(notesMap, ob1) ELSE notesMap
         u2 == IF replace THEN undoable(u1, notesMap, ob1, nm1, ob1) ELSE u1
         nm2 == AddEach(nm1, NewIds(ins))
     IN /\ Store(nm2, tempNotesMap, ob1, dragNote)
        /\ Manager(undoableEnd(undo, u2, nm2, ob1))
  /\ nextId' = nextId + Len(ins)
  /\ UNCHANGED <<generationMasks, mouseUpListener, dragVars, isEraseToolDragging,
                 isMaskToolDragging, laneVars>>

\* Editor.clearAgentNotes(), called on its own
ClearAgentNotes ==
  /\ Event
  /\ PointerFree
  /\ LET nm1 == clearAgentNotes(notesMap, obj)
     IN /\ Store(nm1, tempNotesMap, obj, 0)
        /\ Manager(undoable(undo, notesMap, obj, nm1, obj))
  /\ UNCHANGED <<nextId, generationMasks, mouseUpListener, dragVars,
                 isEraseToolDragging, isMaskToolDragging, laneVars>>

\* Editor.clearAllNotes(): notesMap.clear()
ClearAllNotes ==
  /\ Event
  /\ PointerFree
  /\ Store(<<>>, tempNotesMap, obj, 0)
  /\ Manager(undoable(undo, notesMap, obj, <<>>, obj))
  /\ UNCHANGED <<nextId, generationMasks, mouseUpListener, dragVars,
                 isEraseToolDragging, isMaskToolDragging, laneVars>>

\* Editor.setTempNotes(notes, clear): the preview notes of a candidate
SetTempNotes(ins, clear) ==
  /\ Event
  /\ nextId + Len(ins) - 1 <= MaxId
  /\ LET ob1 == WithNew(obj, ins, nextId)
         tm0 == IF clear THEN <<>> ELSE tempNotesMap
     IN Store(notesMap, AddEach(tm0, NewIds(ins)), ob1, dragNote)
  /\ nextId' = nextId + Len(ins)
  /\ UNCHANGED <<generationMasks, undo, mouseUpListener, dragVars,
                 isEraseToolDragging, isMaskToolDragging, laneVars>>

\* Interactions.handleGridMouseDown: with the ERASE tool the erase drag starts
GridMouseDown(erase) ==
  /\ Event
  /\ PointerFree
  /\ isEraseToolDragging' = (IF erase THEN TRUE ELSE isEraseToolDragging)
  /\ mouseUpListener' = "grid"
  /\ UNCHANGED <<storeVars, generationMasks, undo, dragVars, isMaskToolDragging,
                 laneVars>>

\* the mouseUp of handleGridMouseDown
GridMouseUp ==
  /\ Event
  /\ mouseUpListener = "grid"
  /\ isEraseToolDragging' = FALSE
  /\ mouseUpListener' = "none"
  /\ UNCHANGED <<storeVars, generationMasks, undo, dragVars, isMaskToolDragging,
                 laneVars>>

\* Editor.removeNote(note): @undoable, and the body calls removeNote again, not
\* _removeNote: the wrapper that found no transaction begins one, every inner
\* call finds it open, and the recursion ends in a RangeError that no wrapper
\* completes.  The store is as it was.
removeNote(u0, nm, ob) == undoableBegin(u0, nm, ob)

\* Interactions.handleNoteHover(note) during an erase drag: editor.removeNote
NoteHover(id) ==
  /\ Step
  /\ trimmed' = 0
  /\ maskTrip' = NoTrip
  /\ raised' = "RangeError"
  /\ isEraseToolDragging
  /\ id \in Range(allNotes(notesMap, tempNotesMap))
  /\ Manager(removeNote(undo, notesMap, obj))
  /\ UNCHANGED <<storeVars, generationMasks, mouseUpListener, dragVars,
                 isEraseToolDragging, isMaskToolDragging, laneVars,
                 currentlyPlayingNotes, input, output>>

(***************************************************************************)
(* Editor: voice trimming.                                                 *)
(***************************************************************************)
\* the notes trimOverlappingVoices(note) selects: the other notes of allNotes
\* in note's voice that overlap [note.start, note.end] at any pitch
overlappingNotes(nm, tm, ob, id) ==
  {k \in Range(allNotes(nm, tm)) :
     /\ k # id
     /\ ob[k].voice = ob[id].voice
     /\ overlaps(ob[k], <<start(ob[id]), end(ob[id])>>, <<MIN_PITCH, MAX_PITCH>>)}

\* Editor.trimOverlappingVoices(note): the map and the heap afterwards
trimOverlappingVoicesMap(nm, tm, ob, id) ==
  LET gone == {k \in overlappingNotes(nm, tm, ob, id) : ~(end(ob[k]) > end(ob[id]))}
  IN SelectSeq(nm, LAMBDA k : k \notin gone)

trimOverlappingVoicesObj(nm, tm, ob, id) ==
  [k \in Ids |->
     IF k \in overlappingNotes(nm, tm, ob, id) /\ end(ob[k]) > end(ob[id])
     THEN moveStart(ob[k], end(ob[id]))
     ELSE ob[k]]

TrimOverlappingVoices(id) ==
  /\ Handled
  /\ id \in Range(allNotes(notesMap, tempNotesMap))
  /\ Store(trimOverlappingVoicesMap(notesMap, tempNotesMap, obj, id), tempNotesMap,
           trimOverlappingVoicesObj(notesMap, tempNotesMap, obj, id), dragNote)
  /\ trimmed' = id
  /\ maskTrip' = NoTrip
  /\ UNCHANGED <<nextId, generationMasks, undo, mouseUpListener, dragVars,
                 isEraseToolDragging, isMaskToolDragging, laneVars>>

(***************************************************************************)
(* Editor: generation masks.                                               *)
(***************************************************************************)
\* Editor.addMask(voiceIndex, mask): a Set of the old indices and the new
\* ones, sorted back into an array
addMask(masks, voiceIndex, mask) ==
  [masks EXCEPT ![voiceIndex + 1] = SortedSeq(Range(@) \cup Range(mask))]

\* a removeMask that takes out the first index of the list only
removeMaskFirst(masks, voiceIndex, mask) ==
  [masks EXCEPT ![voiceIndex + 1] =
     SortedSeq(Range(@) \ (IF mask = <<>> THEN {} ELSE {Head(mask)}))]

\* Editor.removeMask(voiceIndex, mask)
removeMask(masks, voiceIndex, mask) ==
  [masks EXCEPT ![voiceIndex + 1] = SortedSeq(Range(@) \ Range(mask))]

\* a maskNotes that masks the whole span of every note the rectangle touches
RECURSIVE maskNotesWholeNote(_, _, _, _, _)
maskNotesWholeNote(masks, notes, ob, positionRange, pitchRange) ==
  IF notes = <<>> THEN masks
  ELSE LET note == ob[Head(notes)]
       IN maskNotesWholeNote(IF overlaps(note, positionRange, pitchRange)
                             THEN addMask(masks, note.voice,
                                          range(start(note), end(note)))
                             ELSE masks,
                             Tail(notes), ob, positionRange, pitchRange)

\* Editor.maskNotes(positionRange, pitchRange): for every note of allNotes in
\* the rectangle, addMask of the steps the note and the rectangle share
RECURSIVE maskNotes(_, _, _, _, _)
maskNotes(masks, notes, ob, positionRange, pitchRange) ==
  IF notes = <<>> THEN masks
  ELSE LET note == ob[Head(notes)]
           maskStart == Max(positionRange[1], start(note))
           maskEnd == Min(positionRange[2], end(note))
           maskRange == range(maskStart, maskEnd)
       IN maskNotes(IF overlaps(note, positionRange, pitchRange)
                    THEN addMask(masks, note.voice, maskRange)
                    ELSE masks,
                    Tail(notes), ob, positionRange, pitchRange)

\* a maskNotes that also takes the notes of the rectangle out of the store
MaskNotesErasing(positionRange, pitchRange) ==
  /\ Event
  /\ PointerFree
  /\ generationMasks' = maskNotes(generationMasks, allNotes(notesMap, tempNotesMap),
                                  obj, positionRange, pitchRange)
  /\ LET nm1 == SelectSeq(notesMap,
                          LAMBDA k : ~overlaps(obj[k], positionRange, pitchRange))
     IN /\ Store(nm1, tempNotesMap, obj, dragNote)
        /\ Manager(undoable(undo, notesMap, obj, nm1, obj))
  /\ nextId' = nextId
  /\ UNCHANGED <<mouseUpListener, dragVars, isEraseToolDragging,
                 isMaskToolDragging, laneVars>>

\* the older maskNotes: the notes of the rectangle have their isMasked flag
\* flipped, and no voice mask changes
MaskNotesToggling(positionRange, pitchRange) ==
  /\ Event
  /\ PointerFree
  /\ LET ob1 == [k \in Ids |->
                   IF /\ k \in Range(allNotes(notesMap, tempNotesMap))
                      /\ overlaps(obj[k], positionRange, pitchRange)
                   THEN [obj[k] EXCEPT !.isMasked = ~@]
                   ELSE obj[k]]
     IN /\ Store(notesMap, tempNotesMap, ob1, dragNote)
        /\ Manager(undoable(undo, notesMap, obj, notesMap, ob1))
  /\ UNCHANGED <<nextId, generationMasks, mouseUpListener, dragVars,
                 isEraseToolDragging, isMaskToolDragging, laneVars>>

\* @undoable maskNotes, as the mask tool calls it
MaskNotes(positionRange, pitchRange) ==
  /\ Event
  /\ PointerFree
  /\ generationMasks' = maskNotes(generationMasks, allNotes(notesMap, tempNotesMap),
                                  obj, positionRange, pitchRange)
  /\ Manager(undoable(undo, notesMap, obj, notesMap, obj))
  /\ UNCHANGED <<storeVars, mouseUpListener, dragVars, isEraseToolDragging,
                 isMaskToolDragging, laneVars>>

\* Editor.addMask and Editor.removeMask called with an index list
AddMask(voiceIndex, mask) ==
  /\ Call
  /\ maskTrip' = [stage |-> 1, voiceIndex |-> voiceIndex, mask |-> mask,
                  initial |-> generationMasks[voiceIndex + 1]]
  /\ generationMasks' = addMask(generationMasks, voiceIndex, mask)
  /\ UNCHANGED <<storeVars, undo, mouseUpListener, dragVars, isEraseToolDragging,
                 isMaskToolDragging, laneVars>>

RemoveMask(voiceIndex, mask) ==
  /\ Call
  /\ maskTrip' = IF /\ maskTrip.stage = 1
                    /\ maskTrip.voiceIndex = voiceIndex
                    /\ maskTrip.mask = mask
                 THEN [maskTrip EXCEPT !.stage = 2]
                 ELSE NoTrip
  /\ generationMasks' = removeMask(generationMasks, voiceIndex, mask)
  /\ UNCHANGED <<storeVars, undo, mouseUpListener, dragVars, isEraseToolDragging,
                 isMaskToolDragging, laneVars>>

\* Interactions.handleMaskLaneClick(voiceIndex): the whole lane is masked
MaskLaneClick(voiceIndex) ==
  /\ Event
  /\ PointerFree
  /\ generationMasks' = addMask(generationMasks, voiceIndex,
                                range(0, TOTAL_SIXTEENTHS))
  /\ UNCHANGED <<storeVars, undo, mouseUpListener, dragVars, isEraseToolDragging,
                 isMaskToolDragging, laneVars>>

\* Interactions.handleMaskRectClick(voiceIndex, maskIndices): a drawn mask
\* rectangle, a run of masked steps, is clicked away
MaskRectClick(voiceIndex, maskIndices) ==
  /\ Event
  /\ PointerFree
  /\ maskIndices # <<>>
  /\ Range(maskIndices) \subseteq Range(generationMasks[voiceIndex + 1])
  /\ generationMasks' = removeMask(generationMasks, voiceIndex, maskIndices)
  /\ UNCHANGED <<storeVars, undo, mouseUpListener, dragVars, isEraseToolDragging,
                 isMaskToolDragging, laneVars>>

\* quantizePosition(x / layout.sixteenthWidth, Math.floor) and (.., Math.ceil)
quantizeFloor(x) == Floor(x, sixteenthWidth * quantizeStep) * quantizeStep
quantizeCeil(x) == Ceil(x, sixteenthWidth * quantizeStep) * quantizeStep

\* Interactions.handleMaskLaneMouseDown(voiceIndex): x is e.clientX - dim.left
MaskLaneMouseDown(voiceIndex, x) ==
  /\ Event
  /\ PointerFree
  /\ maskLaneVoice' = voiceIndex
  /\ maskLaneDragStartX' = x
  /\ maskLaneDragX' = x
  /\ isMaskToolDragging' = TRUE
  /\ mouseUpListener' = "maskLane"
  /\ UNCHANGED <<storeVars, generationMasks, undo, dragVars, isEraseToolDragging>>

\* its mouseMove: the pointer is deltaX pixels from where the button went down
MaskLaneMouseMove(deltaX) ==
  /\ Event
  /\ mouseUpListener = "maskLane"
  /\ maskLaneDragX' = deltaX + maskLaneDragStartX
  /\ UNCHANGED <<storeVars, generationMasks, undo, mouseUpListener, dragVars,
                 isEraseToolDragging, isMaskToolDragging, maskLaneVoice,
                 maskLaneDragStartX>>

\* the array its mouseUp stores as the voice's mask
maskLaneRange(aX, bX) ==
  LET startX == IF aX <= bX THEN aX ELSE bX
      endX == IF aX > bX THEN aX ELSE bX
  IN range(quantizeFloor(startX), quantizeCeil(endX))

\* its mouseUp: generationMasks[voiceIndex] = _.range(..); the listeners go
MaskLaneMouseUp ==
  /\ Event
  /\ mouseUpListener = "maskLane"
  /\ generationMasks' = [generationMasks EXCEPT ![maskLaneVoice + 1] =
                           maskLaneRange(maskLaneDragStartX, maskLaneDragX)]
  /\ mouseUpListener' = "none"
  \* the drag fields are dead until the next mousedown overwrites them
  /\ maskLaneVoice' = 0
  /\ maskLaneDragStartX' = 0
  /\ maskLaneDragX' = 0
  /\ UNCHANGED <<storeVars, undo, dragVars, isEraseToolDragging,
                 isMaskToolDragging>>

\* what the engine hands over: AGENT notes of the second voice
AgentInputs ==
  [pitch : {MIN_PITCH}, position : {0, 2}, duration : {2}, voice : {1}]

Sequences1 == {<<>>} \cup {<<in>> : in \in AgentInputs}

\* the rectangles the mask tool drags out: quantized steps, grid rows
PositionRanges == {<<0, 2>>, <<0, 4>>, <<2, 4>>}
PitchRanges == {<<MIN_PITCH, MIN_PITCH>>, <<MIN_PITCH, MAX_PITCH>>}

NextStore ==
  \/ \E scaleIndex \in 0 .. (MAX_PITCH - MIN_PITCH), divisionIndex \in 0 .. (nDivisions - 1) :
       GridClick(scaleIndex, divisionIndex)
  \/ \E id \in Ids : NoteMouseDown(id)
  \/ \E deltaX \in DeltaXs, deltaY \in DeltaYs : NoteDrag(deltaX, deltaY)
  \/ NoteMouseUp
  \/ Undo
  \/ Redo
  \/ \E ins \in Sequences1, replace \in BOOLEAN : AddAgentNotes(ins, replace)
  \/ ClearAgentNotes
  \/ ClearAllNotes
  \/ \E ins \in Sequences1, clear \in BOOLEAN : SetTempNotes(ins, clear)
  \/ \E erase \in BOOLEAN : GridMouseDown(erase)
  \/ GridMouseUp
  \/ \E id \in Ids : NoteHover(id)
  \/ \E positionRange \in {<<0, 4>>}, pitchRange \in PitchRanges :
       MaskNotes(positionRange, pitchRange)

\* the editor under the pointer, the engine and the undo buttons
Spec == Init /\ [][NextStore]_vars

\* what trimming meets: notes of two voices, one to three steps long
TrimInputs ==
  [pitch : {MIN_PITCH}, position : {0, 1, 2}, duration : {1, 2}, voice : {0, 1}]

TrimSequences == {<<in>> : in \in TrimInputs}

NextTrim ==
  \/ \E ins \in TrimSequences : AddAgentNotes(ins, FALSE)
  \/ \E ins \in TrimSequences : SetTempNotes(ins, FALSE)
  \/ \E id \in Ids : TrimOverlappingVoices(id)

\* the store filled by the engine, and trimOverlappingVoices called on it
SpecTrim == Init /\ [][NextTrim]_vars

\* index lists handed to addMask and removeMask: in order or not, with repeats
MaskLists == {<<>>, <<0>>, <<3>>, <<1, 0>>, <<2, 2>>, <<0, 1, 2, 3>>}
MaskVoices == {0, 1}
\* where the button goes down in a mask lane, and how far the pointer then moves
LaneXs == {0, 1, 3}
LaneDeltaXs == {-3, -1, 2}

NextMask ==
  \/ \E v \in MaskVoices, m \in MaskLists : AddMask(v, m)
  \/ \E v \in MaskVoices, m \in MaskLists : RemoveMask(v, m)
  \/ \E v \in MaskVoices : MaskLaneClick(v)
  \/ \E v \in MaskVoices, m \in MaskLists : MaskRectClick(v, m)
  \/ \E v \in MaskVoices, x \in LaneXs : MaskLaneMouseDown(v, x)
  \/ \E deltaX \in LaneDeltaXs : MaskLaneMouseMove(deltaX)
  \/ MaskLaneMouseUp
  \/ \E positionRange \in PositionRanges, pitchRange \in PitchRanges :
       MaskNotes(positionRange, pitchRange)
  \/ \E ins \in Sequences1 : AddAgentNotes(ins, FALSE)

\* the generation masks under the mask lanes, the mask tool and the engine
SpecMask == Init /\ [][NextMask]_vars

\* the pointer on the grid and on the notes only: addNote and note drags
NextDraw ==
  \/ \E scaleIndex \in 0 .. (MAX_PITCH - MIN_PITCH), divisionIndex \in 0 .. (nDivisions - 1) :
       GridClick(scaleIndex, divisionIndex)
  \/ \E id \in Ids : NoteMouseDown(id)
  \/ \E deltaX \in DeltaXs, deltaY \in DeltaYs : NoteDrag(deltaX, deltaY)
  \/ NoteMouseUp

SpecDraw == Init /\ [][NextDraw]_vars

(***************************************************************************)
(* The claims.                                                             *)
(***************************************************************************)
SameCell(a, b) == a.pitch = b.pitch /\ a.position = b.position

\* C1: store uniqueness.  Whenever no drag is under way, after any sequence
\* of addNote calls and note drags from the default notes, no two notes of
\* the persistent set are on the same (pitch, position) cell.
C1_StoreUniqueness ==
  mouseUpListener # "note" =>
    \A i, j \in 1 .. Len(notesMap) :
      i # j => ~SameCell(obj[notesMap[i]], obj[notesMap[j]])

\* C2: drag-conflict resolution.  When endNoteDrag(X) is called with X on the
\* cell of another persistent note Y, afterwards Y is gone from the
\* persistent set and X is still in it.
C2_DragConflictResolution ==
  [][NoteMouseUp =>
       \A y \in Range(notesMap) :
         (/\ dragNote \in Range(notesMap)
          /\ y # dragNote
          /\ SameCell(obj[y], obj[dragNote])
          /\ (\/ obj[dragNote].position # noteDragStartPosition
              \/ obj[dragNote].pitch # noteDragStartPitch))
         => (y \notin Range(notesMap') /\ dragNote \in Range(notesMap'))]_vars

(***************************************************************************)
(* Steps of the undo manager, told by what they do to its stacks.          *)
(***************************************************************************)
Top(stack) == stack[Len(stack)]
Pop(stack) == SubSeq(stack, 1, Len(stack) - 1)

StacksUnchanged ==
  /\ undo'.undoStack = undo.undoStack
  /\ undo'.redoStack = undo.redoStack

\* one step (before, after) is pushed and the redo stack is emptied
Pushed(before, after) ==
  /\ undo'.undoStack = Append(undo.undoStack, [before |-> before, after |-> after])
  /\ undo'.redoStack = <<>>

NoteIn(snapshot, id) == \E k \in 1 .. Len(snapshot) : snapshot[k].id = id
NoteOf(snapshot, id) == snapshot[CHOOSE k \in 1 .. Len(snapshot) : snapshot[k].id = id]

\* C3: undo/redo inverse.  A transaction's "before" is the persistent
\* collection as it was when the transaction began and stays that while it is
\* open; the step pushed at its completion holds that "before" and the
\* collection at completion as "after"; undo() leaves the persistent
\* collection equal to the popped step's "before" and redo() equal to its
\* "after", note for note (id, pitch, position, duration); and neither opens
\* or closes a transaction.
C3_UndoRedoInverse ==
  [][/\ (~undo.isOpen /\ undo'.isOpen) => undo'.before = Snapshot(notesMap, obj)
     /\ (undo.isOpen /\ undo'.isOpen) => undo'.before = undo.before
     /\ (Len(undo'.undoStack) = Len(undo.undoStack) + 1 /\ ~Redo) =>
          /\ Top(undo'.undoStack).after = Snapshot(notesMap', obj')
          /\ Top(undo'.undoStack).before =
               (IF undo.isOpen THEN undo.before ELSE Snapshot(notesMap, obj))
     /\ Undo =>
          /\ Snapshot(notesMap', obj') = Top(undo.undoStack).before
          /\ undo'.isOpen = undo.isOpen /\ undo'.before = undo.before
     /\ Redo =>
          /\ Snapshot(notesMap', obj') = Top(undo.redoStack).after
          /\ undo'.isOpen = undo.isOpen /\ undo'.before = undo.before
    ]_vars

\* C3 witness: a step that changed the collection was undone, and the store
\* is back to the step's "before"
C3_Witness ==
  /\ undo.redoStack # <<>>
  /\ Top(undo.redoStack).before # Top(undo.redoStack).after
  /\ Snapshot(notesMap, obj) = Top(undo.redoStack).before

\* C4 as claimed: every note-drag gesture is recorded as exactly one undo
\* step, whose "before" holds the dragged note at its pre-drag pitch and
\* position.
C4_DragIsOneUndoStep ==
  [][NoteMouseUp =>
       /\ Len(undo'.undoStack) = Len(undo.undoStack) + 1
       /\ NoteIn(Top(undo'.undoStack).before, dragNote)
       /\ NoteOf(Top(undo'.undoStack).before, dragNote).position = noteDragStartPosition
       /\ NoteOf(Top(undo'.undoStack).before, dragNote).pitch = noteDragStartPitch
    ]_vars

\* C4 as amended: a note-drag gesture is recorded as at most one undo step.
\* The mousedown that finds the manager idle opens a transaction whose
\* "before" is the collection at that moment, with the dragged note at its
\* pre-drag pitch and position; nothing between mousedown and mouseup
\* (mousemoves mutating the note in place, engine calls) changes that
\* snapshot or pushes a step; the mouseup closes the transaction and pushes
\* one step exactly when the collection differs from the snapshot, none when
\* it does not; undo() of the step restores the snapshot.
C4_DragGesture ==
  [][/\ (mouseUpListener = "none" /\ mouseUpListener' = "note" /\ ~undo.isOpen) =>
          /\ undo'.isOpen
          /\ undo'.before = Snapshot(notesMap, obj)
          /\ StacksUnchanged
          /\ dragNote' \in Range(notesMap) =>
               /\ NoteIn(undo'.before, dragNote')
               /\ NoteOf(undo'.before, dragNote').position = noteDragStartPosition'
               /\ NoteOf(undo'.before, dragNote').pitch = noteDragStartPitch'
     /\ (mouseUpListener = "note" /\ mouseUpListener' = "note") => undo' = undo
     /\ (mouseUpListener = "note" /\ mouseUpListener' = "none") =>
          /\ ~undo'.isOpen
          /\ IF undo.before # Snapshot(notesMap', obj')
             THEN Pushed(undo.before, Snapshot(notesMap', obj'))
             ELSE StacksUnchanged
     /\ Undo => Snapshot(notesMap', obj') = Top(undo.undoStack).before
    ]_vars

\* C4 witness: a drag was recorded: the last step's "before" and "after" hold
\* the same note on different cells
C4_Witness ==
  /\ mouseUpListener = "none"
  /\ undo.undoStack # <<>>
  /\ \E k \in Ids :
       /\ NoteIn(Top(undo.undoStack).before, k)
       /\ NoteIn(Top(undo.undoStack).after, k)
       /\ ~SameCell(NoteOf(Top(undo.undoStack).before, k),
                    NoteOf(Top(undo.undoStack).after, k))

\* C5: completeUndoable pushes one (before, after) step and empties the redo
\* stack exactly when the persistent collection at completion differs from
\* the transaction's "before"; when it does not differ both stacks stay as
\* they were, as after maskNotes, which changes voice masks only.
C5_CompleteUndoable ==
  [][/\ (undo.isOpen /\ ~undo'.isOpen) =>
          IF undo.before # Snapshot(notesMap', obj')
          THEN Pushed(undo.before, Snapshot(notesMap', obj'))
          ELSE StacksUnchanged
     /\ (~undo.isOpen /\ ~undo'.isOpen /\ ~Undo /\ ~Redo) =>
          IF Snapshot(notesMap, obj) # Snapshot(notesMap', obj')
          THEN Pushed(Snapshot(notesMap, obj), Snapshot(notesMap', obj'))
          ELSE StacksUnchanged
     /\ \A positionRange \in PositionRanges, pitchRange \in PitchRanges :
          MaskNotes(positionRange, pitchRange) => StacksUnchanged
    ]_vars

\* C5 witness: of two calls, one changed the collection and was pushed, the
\* other was maskNotes, which changed a mask and pushed nothing
C5_Witness ==
  /\ handled = 2
  /\ generationMasks # NoMasks
  /\ Len(undo.undoStack) = 1

\* C6 as claimed: addAgentNotes(sequence, replace = true) yields exactly one
\* undo step, whose "before" is the collection as it was before the call.
C6_AddAgentNotesOneStep ==
  [][\A ins \in Sequences1 :
       AddAgentNotes(ins, TRUE) =>
         /\ Len(undo'.undoStack) = Len(undo.undoStack) + 1
         /\ Top(undo'.undoStack).before = Snapshot(notesMap, obj)
    ]_vars

\* C6 as amended: addAgentNotes(sequence, replace = true) never records its
\* inner clearAgentNotes as a step of its own and never loses a "before"
\* snapshot.  Called while a transaction is open it leaves the manager as it
\* was.  Called with the manager idle it pushes one step when it changes the
\* collection, none when it does not, and the step's "before" is the
\* collection before the call, cleared AGENT notes included.
C6_NestedUndoable ==
  [][\A ins \in Sequences1 :
       AddAgentNotes(ins, TRUE) =>
         IF undo.isOpen THEN undo' = undo
         ELSE /\ ~undo'.isOpen
              /\ IF Snapshot(notesMap, obj) # Snapshot(notesMap', obj')
                 THEN Pushed(Snapshot(notesMap, obj), Snapshot(notesMap', obj'))
                 ELSE StacksUnchanged
    ]_vars

\* C6 witness: the last step replaced AGENT notes: its "before" holds an AGENT
\* note its "after" lacks, and its "after" holds one its "before" lacks
C6_Witness ==
  /\ undo.undoStack # <<>>
  /\ \E k \in Ids :
       /\ NoteIn(Top(undo.undoStack).before, k)
       /\ NoteOf(Top(undo.undoStack).before, k).source = AGENT
       /\ ~NoteIn(Top(undo.undoStack).after, k)
  /\ \E k \in Ids :
       /\ NoteIn(Top(undo.undoStack).after, k)
       /\ NoteOf(Top(undo.undoStack).after, k).source = AGENT
       /\ ~NoteIn(Top(undo.undoStack).before, k)

(***************************************************************************)
(* Trimming and masks.                                                     *)
(***************************************************************************)
\* the intervals [start, end) of two notes share a step
Intersects(a, b) == start(a) < end(b) /\ start(b) < end(a)

\* the other notes of allNotes in the voice of note id
SameVoice(id) ==
  {k \in Range(allNotes(notesMap, tempNotesMap)) \ {id} : obj[k].voice = obj[id].voice}

\* C7: monophony.  After trimOverlappingVoices(note) no other note of
\* allNotes, persistent or temp, in the voice of note has an interval
\* [start, end) that intersects [note.start, note.end).
C7_Monophony ==
  trimmed # 0 =>
    \A k \in SameVoice(trimmed) : ~Intersects(obj[k], obj[trimmed])

\* C8: trimOverlappingVoices(note) treats every other note of the same voice
\* that intersects [note.start, note.end) so: one that ends after note.end
\* stays where it is stored, its start moved to note.end and its end, pitch
\* and voice as they were; one that ends at or before note.end is not in the
\* persistent set afterwards.  The note itself and the notes that do not
\* intersect it stay as they were.
C8_TrimTreatment ==
  [][\A id \in Ids :
       TrimOverlappingVoices(id) =>
         /\ obj'[id] = obj[id]
         /\ \A k \in Range(allNotes(notesMap, tempNotesMap)) \ {id} :
              IF k \in SameVoice(id) /\ Intersects(obj[k], obj[id])
              THEN IF end(obj[k]) > end(obj[id])
                   THEN /\ (k \in Range(notesMap)) = (k \in Range(notesMap'))
                        /\ (k \in Range(tempNotesMap)) = (k \in Range(tempNotesMap'))
                        /\ start(obj'[k]) = end(obj[id])
                        /\ end(obj'[k]) = end(obj[k])
                        /\ obj'[k].pitch = obj[k].pitch
                        /\ obj'[k].voice = obj[k].voice
                   ELSE k \notin Range(notesMap')
              ELSE /\ obj'[k] = obj[k]
                   /\ (k \in Range(notesMap)) = (k \in Range(notesMap'))
                   /\ (k \in Range(tempNotesMap)) = (k \in Range(tempNotesMap'))
    ]_vars

\* C8 witness: a trim met both cases: the default note, covered to its end,
\* is gone from the persistent set, and a note of the same voice that reached
\* past the trimmed note now starts where that ends
C8_Witness ==
  /\ trimmed # 0
  /\ obj[trimmed].voice = SOPRANO
  /\ 1 \notin Range(notesMap)
  /\ \E k \in SameVoice(trimmed) :
       /\ start(obj[k]) = end(obj[trimmed])
       /\ obj[k].position = 3 /\ obj[k].duration = 1

\* C9 as claimed: addMask(v, m) and then removeMask(v, m) leave the mask of
\* voice v equal to what it was before the two calls.
C9_MaskRoundTrip ==
  maskTrip.stage = 2 =>
    generationMasks[maskTrip.voiceIndex + 1] = maskTrip.initial

\* C9 as amended: addMask(v, m) and then removeMask(v, m) leave the mask of
\* voice v equal to the initial mask without the indices of m; that is the
\* initial mask exactly when m shares no index with it.
C9_MaskRoundTripDisjoint ==
  maskTrip.stage = 2 =>
    /\ generationMasks[maskTrip.voiceIndex + 1] =
         SortedSeq(Range(maskTrip.initial) \ Range(maskTrip.mask))
    /\ (generationMasks[maskTrip.voiceIndex + 1] = maskTrip.initial)
         = (Range(maskTrip.initial) \cap Range(maskTrip.mask) = {})

\* C9 witness: indices were added to a mask that held others, and removed
\* again, and the mask is as it was
C9_Witness ==
  /\ maskTrip.stage = 2
  /\ maskTrip.initial # <<>>
  /\ maskTrip.mask # <<>>
  /\ generationMasks[maskTrip.voiceIndex + 1] = maskTrip.initial

\* C10: whatever addMask, removeMask, maskNotes, lane clicks and lane drags
\* were made, each of the four voice masks is strictly ascending and all its
\* indices lie in [0, totalSixteenths).
C10_MasksSortedInRange ==
  \A v \in 1 .. Len(generationMasks) :
    /\ \A i \in 1 .. Len(generationMasks[v]) - 1 :
         generationMasks[v][i] < generationMasks[v][i + 1]
    /\ \A i \in 1 .. Len(generationMasks[v]) :
         generationMasks[v][i] \in 0 .. (TOTAL_SIXTEENTHS - 1)

(***************************************************************************)
(* Queries, and the mask tool on a store of several voices.                *)
(***************************************************************************)
\* a query: it returns value and changes nothing
Query(op, value) ==
  /\ Step
  /\ raised' = "none"
  /\ trimmed' = 0
  /\ maskTrip' = NoTrip
  /\ output' = [op |-> op, value |-> value]
  /\ UNCHANGED <<currentlyPlayingNotes, input>>

\* an isNoteMasked that takes the step at the note's end for one of the note
isNoteMaskedToEnd(masks, note) ==
  LET mask == masks[note.voice + 1]
  IN \E i \in 1 .. Len(mask) : mask[i] >= start(note) /\ mask[i] <= end(note)

\* Editor.isNoteMasked(note): the loop over the mask of the note's voice
isNoteMasked(masks, note) ==
  LET mask == masks[note.voice + 1]
  IN \E i \in 1 .. Len(mask) : mask[i] >= start(note) /\ mask[i] < end(note)

\* Editor.getMaskedSequence(): the notes of allNotes that isNoteMasked keeps
getMaskedSequence(nm, tm, ob, masks) ==
  SelectSeq(allNotes(nm, tm), LAMBDA k : isNoteMasked(masks, ob[k]))

\* the engine asks for the masked notes
GetMaskedSequence ==
  /\ Query("getMaskedSequence",
           getMaskedSequence(notesMap, tempNotesMap, obj, generationMasks))
  /\ UNCHANGED <<storeVars, generationMasks, undo, mouseUpListener, dragVars,
                 isEraseToolDragging, isMaskToolDragging, laneVars>>

\* what the mask tool meets: notes of both rows and two voices that reach
\* over the edge of its rectangles
MaskedInputs ==
  [pitch : Pitches, position : {1}, duration : {2}, voice : {0, 1}]

MaskedSequences == {<<in>> : in \in MaskedInputs}

NextMaskNotes ==
  \/ \E ins \in MaskedSequences : AddAgentNotes(ins, FALSE)
  \/ \E ins \in MaskedSequences : SetTempNotes(ins, FALSE)
  \/ \E positionRange \in PositionRanges, pitchRange \in PitchRanges :
       MaskNotes(positionRange, pitchRange)
  \/ GetMaskedSequence

\* a store filled by the engine, masked with the mask tool and queried
SpecMaskNotes == Init /\ [][NextMaskNotes]_vars

\* the steps of [note.start, note.end) within [positionRange[0], positionRange[1])
\* of the notes of voice v and a pitch of pitchRange
MaskedSteps(v, positionRange, pitchRange) ==
  {i \in positionRange[1] .. (positionRange[2] - 1) :
     \E k \in Range(allNotes(notesMap, tempNotesMap)) :
       /\ obj[k].voice = v
       /\ obj[k].pitch >= pitchRange[1] /\ obj[k].pitch <= pitchRange[2]
       /\ start(obj[k]) <= i /\ i < end(obj[k])}

Ascending(s) == \A i \in 1 .. Len(s) - 1 : s[i] < s[i + 1]

\* C11: maskNotes(positionRange, pitchRange) sets the mask of every voice v to
\* its previous mask united with the steps that the notes of voice v in
\* allNotes with a pitch of pitchRange (inclusive) share with positionRange;
\* no other index is added, and the mask of a voice without such a note stays
\* as it was.
C11_MaskNotesIntersection ==
  [][\A positionRange \in PositionRanges, pitchRange \in PitchRanges :
       MaskNotes(positionRange, pitchRange) =>
         \A v \in Voices :
           /\ Range(generationMasks'[v + 1]) =
                Range(generationMasks[v + 1])
                  \cup MaskedSteps(v, positionRange, pitchRange)
           /\ Ascending(generationMasks[v + 1]) => Ascending(generationMasks'[v + 1])
           /\ MaskedSteps(v, positionRange, pitchRange) = {} =>
                generationMasks'[v + 1] = generationMasks[v + 1]
    ]_vars

\* C11 witness: a note is masked in part: a step of its span is in the mask
\* of its voice and another step of its span is not
C11_Witness ==
  \E k \in Range(allNotes(notesMap, tempNotesMap)) :
    /\ \E i \in start(obj[k]) .. (end(obj[k]) - 1) :
         i \in Range(generationMasks[obj[k].voice + 1])
    /\ \E i \in start(obj[k]) .. (end(obj[k]) - 1) :
         i \notin Range(generationMasks[obj[k].voice + 1])

\* C12: the mask tool never edits notes.  maskNotes leaves the persistent
\* set, the temp set and the pitch, position, duration, voice and isMasked
\* flag of every note as they were; of the editor's state only the voice
\* masks change.
C12_MaskNotesFrame ==
  [][\A positionRange \in PositionRanges, pitchRange \in PitchRanges :
       MaskNotes(positionRange, pitchRange) =>
         /\ notesMap' = notesMap
         /\ tempNotesMap' = tempNotesMap
         /\ \A k \in Range(allNotes(notesMap, tempNotesMap)) :
              /\ obj'[k].pitch = obj[k].pitch
              /\ obj'[k].position = obj[k].position
              /\ obj'[k].duration = obj[k].duration
              /\ obj'[k].voice = obj[k].voice
              /\ obj'[k].isMasked = obj[k].isMasked
         /\ currentlyPlayingNotes' = currentlyPlayingNotes
    ]_vars

\* C12 witness: the mask tool masked steps of a store that holds persistent
\* and temp notes, and no note carries the isMasked flag
C12_Witness ==
  /\ generationMasks # NoMasks
  /\ Len(notesMap) >= 2
  /\ tempNotesMap # <<>>
  /\ \A k \in Range(allNotes(notesMap, tempNotesMap)) : ~obj[k].isMasked

\* some index of the mask of the note's voice lies in [note.start, note.end)
MaskMeetsSpan(note) ==
  Range(generationMasks[note.voice + 1])
    \cap (start(note) .. (end(note) - 1)) # {}

\* C13: getMaskedSequence() returns the notes of allNotes, persistent and
\* temp, in allNotes order, for which some index of the mask of the note's
\* own voice lies in [note.start, note.end), and no other note.
C13_GetMaskedSequence ==
  [][GetMaskedSequence =>
       /\ output'.op = "getMaskedSequence"
       /\ output'.value = SelectSeq(allNotes(notesMap, tempNotesMap),
                                    LAMBDA k : MaskMeetsSpan(obj[k]))
       /\ raised' = "none"
    ]_vars

\* C13 witness: the query returned a temp note and left a persistent note
\* out, and the store is as the query saw it
C13_Witness ==
  /\ output.op = "getMaskedSequence"
  /\ output.value = getMaskedSequence(notesMap, tempNotesMap, obj, generationMasks)
  /\ \E k \in Range(tempNotesMap) : k \in Range(output.value)
  /\ \E k \in Range(notesMap) : k \notin Range(output.value)

(***************************************************************************)
(* Playback: the notes under the playhead.                                 *)
(***************************************************************************)
\* Editor.getNoteByPitchPosition: allNotes.find(..), 0 for undefined
getNoteByPitchPosition(nm, tm, ob, pitch, position) ==
  LET notes == allNotes(nm, tm)
      hits == {i \in 1 .. Len(notes) :
                 ob[notes[i]].pitch = pitch /\ ob[notes[i]].position = position}
  IN IF hits = {} THEN 0
     ELSE notes[CHOOSE i \in hits : \A j \in hits : i <= j]

\* Editor.setCurrentlyPlaying(note): the flag of the note
setCurrentlyPlaying(ob, id) == [ob EXCEPT ![id].isPlaying = TRUE]

\* a playhead test that keeps the note that ends where the playhead is
passedStrictly(n, position) == n.position + n.duration < position

\* the playhead has passed the note
passed(n, position) == n.position + n.duration <= position

\* Editor.setNotePlaying(pitch, position).  On a miss note is undefined and
\* note.id throws a TypeError before the loop that evicts; on a hit the note
\* is set playing, tempNotesMap.get(note.id) finds the same note or none,
\* and the notes the playhead has passed leave the set with their flag down.
\* output keeps the notes the call evicted.
SetNotePlaying(pitch, position) ==
  /\ Step
  /\ trimmed' = 0
  /\ maskTrip' = NoTrip
  /\ LET note == getNoteByPitchPosition(notesMap, tempNotesMap, obj, pitch, position)
         ob1 == setCurrentlyPlaying(obj, note)
         playing == currentlyPlayingNotes \cup {note}
         gone == {k \in playing : passed(ob1[k], position)}
     IN IF note = 0
        THEN /\ raised' = "TypeError"
             /\ output' = [op |-> "setNotePlaying", value |-> {}]
             /\ UNCHANGED <<obj, currentlyPlayingNotes>>
        ELSE /\ raised' = "none"
             /\ output' = [op |-> "setNotePlaying", value |-> gone]
             /\ currentlyPlayingNotes' = playing \ gone
             /\ obj' = [k \in Ids |-> IF k \in gone
                                      THEN [ob1[k] EXCEPT !.isPlaying = FALSE]
                                      ELSE ob1[k]]
  /\ UNCHANGED <<notesMap, tempNotesMap, nextId, generationMasks, undo,
                 mouseUpListener, dragVars, isEraseToolDragging,
                 isMaskToolDragging, laneVars, input>>

\* Editor.clearPlayingNotes(): the set is emptied, the flags of allNotes go down
ClearPlayingNotes ==
  /\ Step
  /\ trimmed' = 0
  /\ maskTrip' = NoTrip
  /\ raised' = "none"
  /\ currentlyPlayingNotes' = {}
  /\ obj' = Collect([k \in Ids |->
                       IF k \in Range(allNotes(notesMap, tempNotesMap))
                       THEN [obj[k] EXCEPT !.isPlaying = FALSE]
                       ELSE obj[k]],
                    Range(notesMap) \cup Range(tempNotesMap) \cup {dragNote})
  /\ UNCHANGED <<notesMap, tempNotesMap, nextId, generationMasks, undo,
                 mouseUpListener, dragVars, isEraseToolDragging,
                 isMaskToolDragging, laneVars, input, output>>

\* where the playhead is when the engine reports a note
PlayheadPositions == 0 .. (TOTAL_SIXTEENTHS - 1)

NextPlay ==
  \/ \E scaleIndex \in 0 .. (MAX_PITCH - MIN_PITCH), divisionIndex \in 0 .. (nDivisions - 1) :
       GridClick(scaleIndex, divisionIndex)
  \/ \E ins \in Sequences1, clear \in BOOLEAN : SetTempNotes(ins, clear)
  \/ \E pitch \in Pitches, position \in PlayheadPositions :
       SetNotePlaying(pitch, position)
  \/ ClearPlayingNotes

\* the store drawn and previewed while the engine plays it
SpecPlay == Init /\ [][NextPlay]_vars

\* a note of allNotes sits on the cell
NoteAt(pitch, position) ==
  \E k \in Range(allNotes(notesMap, tempNotesMap)) :
    obj[k].pitch = pitch /\ obj[k].position = position

\* C14: a lookup that misses is a silent no-op.  setNotePlaying(pitch,
\* position) with no note on (pitch, position) raises no error, adds nothing
\* to the currently-playing set and still evicts the notes the playhead has
\* passed.
C14_MissIsSilent ==
  [][\A pitch \in Pitches, position \in PlayheadPositions :
       (SetNotePlaying(pitch, position) /\ ~NoteAt(pitch, position)) =>
         /\ raised' = "none"
         /\ currentlyPlayingNotes' \subseteq currentlyPlayingNotes
         /\ \A k \in currentlyPlayingNotes' : end(obj'[k]) > position
    ]_vars

\* C20: advance-playhead.  When setNotePlaying(pitch, position) returns, the
\* currently-playing set holds a note on (pitch, position) if allNotes has
\* one, holds no note whose end is at or before position, and every note the
\* call took out of the set has its isPlaying flag down.
C20_AdvancePlayhead ==
  [][\A pitch \in Pitches, position \in PlayheadPositions :
       (SetNotePlaying(pitch, position) /\ raised' = "none") =>
         /\ NoteAt(pitch, position) =>
              \E k \in currentlyPlayingNotes' :
                /\ obj'[k].pitch = pitch /\ obj'[k].position = position
                /\ obj'[k].isPlaying
         /\ \A k \in currentlyPlayingNotes' : end(obj'[k]) > position
         /\ \A k \in currentlyPlayingNotes \ currentlyPlayingNotes' :
              /\ obj'[k].id = k
              /\ ~obj'[k].isPlaying
              /\ end(obj'[k]) <= position
    ]_vars

\* C20 witness: the call returned, put a note into the set and took the
\* notes the playhead had passed out of it
C20_Witness ==
  /\ raised = "none"
  /\ output.op = "setNotePlaying"
  /\ output.value # {}
  /\ currentlyPlayingNotes # {}
  /\ \A k \in output.value : ~obj[k].isPlaying

\* C15: removeNote(note) always returns, and when it has the persistent set
\* has no entry with note.id and every other entry is as it was; so on the
\* erase-tool path, where hovering a note during an erase drag calls it.
C15_RemoveNoteReturns ==
  [][\A id \in Ids :
       NoteHover(id) =>
         /\ raised' = "none"
         /\ id \notin Range(notesMap')
         /\ notesMap' = MapDelete(notesMap, id)
         /\ \A k \in Range(notesMap') : obj'[k] = obj[k]
    ]_vars

(***************************************************************************)
(* Geometry functions on their own.                                        *)
(***************************************************************************)
MaxX == 6             \* arguments run from -MaxX to MaxX, and round the pitch range
MaxQuantizeStep == 3  \* editor.quantizeStep runs from 1 to MaxQuantizeStep

GeometryXs == (-MaxX .. MaxX) \cup ((MIN_PITCH - 2) .. (MAX_PITCH + 2))
GeometryInputs == [x : GeometryXs, step : 1 .. MaxQuantizeStep]
Policies == {"round", "floor", "ceil"}

\* a quantizePosition that leaves the step index unscaled
quantizeIndex(x, step, fn) ==
  CASE fn = "round" -> Round(x, step)
    [] fn = "floor" -> Floor(x, step)
    [] fn = "ceil" -> Ceil(x, step)

\* quantizePosition(position, fn) when editor.quantizeStep is step:
\* fn(position / step) * step
quantize(x, step, fn) ==
  (CASE fn = "round" -> Round(x, step)
     [] fn = "floor" -> Floor(x, step)
     [] fn = "ceil" -> Ceil(x, step)) * step

\* nothing of the editor changes when a geometry function is called
GeometryFrame ==
  UNCHANGED <<storeVars, generationMasks, undo, mouseUpListener, dragVars,
              isEraseToolDragging, isMaskToolDragging, laneVars>>

ClampPosition ==
  /\ Query("clampPosition", clampPosition(input.x))
  /\ GeometryFrame

ClampPitch ==
  /\ Query("clampPitch", clampPitch(input.x))
  /\ GeometryFrame

\* quantizePosition(x, fn)
Quantize(fn) ==
  /\ Query("quantize", [fn |-> fn, of |-> input.x,
                        is |-> quantize(input.x, input.step, fn)])
  /\ GeometryFrame

\* quantizePosition called on what quantizePosition returned, same fn
Requantize ==
  /\ output.op \in {"quantize", "requantize"}
  /\ Query("requantize", [fn |-> output.value.fn, of |-> output.value.is,
                          is |-> quantize(output.value.is, input.step,
                                          output.value.fn)])
  /\ GeometryFrame

NextGeometry ==
  \/ ClampPosition
  \/ ClampPitch
  \/ \E fn \in Policies : Quantize(fn)
  \/ Requantize

\* any argument of GeometryInputs may be the one the functions are called with
InitGeometry == InitProgram /\ input \in GeometryInputs

\* the geometry functions called on every argument of GeometryInputs
SpecGeometry == InitGeometry /\ [][NextGeometry]_vars

\* C16: clamp totality.  For every integer p, negative ones included,
\* clampPosition(p) lies in [0, totalSixteenths - 1] and clampPitch(p) lies in
\* [MIN_PITCH, MAX_PITCH].
C16_ClampTotality ==
  /\ output.op = "clampPosition" => output.value \in 0 .. (TOTAL_SIXTEENTHS - 1)
  /\ output.op = "clampPitch" => output.value \in MIN_PITCH .. MAX_PITCH

\* C18: quantization idempotence.  For every integer x, every positive step
\* and each rounding policy (nearest, floor, ceil), what quantize returns is
\* a multiple of step, and quantizing it again returns it.
C18_QuantizeIdempotent ==
  /\ output.op \in {"quantize", "requantize"} => output.value.is % input.step = 0
  /\ output.op = "requantize" => output.value.is = output.value.of

\* C18 witness: a negative x that is no multiple of the step was quantized to
\* another value, and quantizing that value again returned it
C18_Witness ==
  /\ output.op = "requantize"
  /\ input.x < 0
  /\ input.x % input.step # 0
  /\ output.value.of # input.x
  /\ output.value.is = output.value.of

\* C17: generation masks shrink only through removeMask.  A step that is not
\* removeMask (addMask, maskNotes, a full-lane click, a mask-lane drag)
\* leaves every masked index of every voice masked.
C17_MasksShrinkOnlyByRemoveMask ==
  [][(~ \E v \in MaskVoices, m \in MaskLists : RemoveMask(v, m) \/ MaskRectClick(v, m))
       => \A v \in 1 .. Len(generationMasks) :
            Range(generationMasks[v]) \subseteq Range(generationMasks'[v])
    ]_vars

\* C19: after any sequence of note-drag mousemoves, whatever the pointer
\* deltas, the dragged note has its position in [0, totalSixteenths - 1], its
\* pitch in [MIN_PITCH, MAX_PITCH] and the duration it had, at least 1.
C19_DragKeepsNoteInGrid ==
  [][\A deltaX \in DeltaXs, deltaY \in DeltaYs :
       NoteDrag(deltaX, deltaY) =>
         /\ obj'[dragNote].position \in 0 .. (TOTAL_SIXTEENTHS - 1)
         /\ obj'[dragNote].pitch \in MIN_PITCH .. MAX_PITCH
         /\ obj'[dragNote].duration = obj[dragNote].duration
         /\ obj'[dragNote].duration >= 1
    ]_vars

(***************************************************************************)
(* Editor: the legacy, note-based masking.                                 *)
(***************************************************************************)
\* "Mask covers all of note"
covers(n, positionRange) ==
  start(n) >= positionRange[1] /\ end(n) <= positionRange[2]

\* the first loop of maskNotesLegacy: the notes of allNotes under the mask
notesInMask(notes, ob, positionRange, pitchRange) ==
  SelectSeq(notes, LAMBDA k : overlaps(ob[k], positionRange, pitchRange))

allNotesAlreadyMasked(notes, ob, positionRange, pitchRange) ==
  \A k \in Range(notesInMask(notes, ob, positionRange, pitchRange)) :
    covers(ob[k], positionRange) /\ ob[k].isMasked

\* the place in allNotes of the first note the second loop has to split, 0 if
\* it splits none
firstSplit(notes, ob, positionRange, pitchRange) ==
  LET partial == {i \in 1 .. Len(notes) :
                    /\ overlaps(ob[notes[i]], positionRange, pitchRange)
                    /\ ~covers(ob[notes[i]], positionRange)}
  IN IF partial = {} THEN 0 ELSE CHOOSE i \in partial : \A j \in partial : i <= j

\* how many sub-notes Note.fromNote builds for a note the mask covers in part
fromNoteCount(n, positionRange) ==
  IF start(n) < positionRange[1] /\ end(n) > positionRange[2] THEN 3 ELSE 2

\* the heap once the second loop has flagged the covered notes among the first
\* `last` notes of allNotes
maskedUpTo(notes, ob, positionRange, pitchRange, last) ==
  [k \in Ids |->
     IF \E i \in 1 .. last :
          /\ notes[i] = k
          /\ overlaps(ob[k], positionRange, pitchRange)
          /\ covers(ob[k], positionRange)
     THEN [ob[k] EXCEPT !.isMasked = TRUE]
     ELSE ob[k]]

\* the heap after the short-circuit: every note under the mask unflagged
unmasked(notes, ob, positionRange, pitchRange) ==
  [k \in Ids |->
     IF k \in Range(notesInMask(notes, ob, positionRange, pitchRange))
     THEN [ob[k] EXCEPT !.isMasked = FALSE]
     ELSE ob[k]]

\* Editor.replaceNoteWithNotes(note, otherNotes): its first statement is
\* this.removeNote(note), which does not return, so no sub-note is added
replaceNoteWithNotes(u, nm, ob) == removeNote(u, nm, ob)

\* Editor.maskNotesLegacy(positionRange, pitchRange): @undoable.  The second
\* loop runs over allNotes as it was when the loop began and stops at the first
\* note it has to split, where replaceNoteWithNotes throws; the sub-notes built
\* for that note are dropped with it.
MaskNotesLegacy(positionRange, pitchRange) ==
  /\ Step
  /\ trimmed' = 0
  /\ maskTrip' = NoTrip
  /\ PointerFree
  /\ LET notes == allNotes(notesMap, tempNotesMap)
         split == firstSplit(notes, obj, positionRange, pitchRange)
         u1 == undoableBegin(undo, notesMap, obj)
     IN IF allNotesAlreadyMasked(notes, obj, positionRange, pitchRange)
        THEN LET ob1 == unmasked(notes, obj, positionRange, pitchRange)
             IN /\ Store(notesMap, tempNotesMap, ob1, dragNote)
                /\ Manager(undoableEnd(undo, u1, notesMap, ob1))
                /\ raised' = "none"
                /\ nextId' = nextId
        ELSE IF split = 0
        THEN LET ob1 == maskedUpTo(notes, obj, positionRange, pitchRange, Len(notes))
             IN /\ Store(notesMap, tempNotesMap, ob1, dragNote)
                /\ Manager(undoableEnd(undo, u1, notesMap, ob1))
                /\ raised' = "none"
                /\ nextId' = nextId
        ELSE LET ob1 == maskedUpTo(notes, obj, positionRange, pitchRange, split - 1)
             IN /\ Store(notesMap, tempNotesMap, ob1, dragNote)
                /\ Manager(replaceNoteWithNotes(u1, notesMap, ob1))
                /\ raised' = "RangeError"
                /\ nextId' = nextId + fromNoteCount(obj[notes[split]], positionRange)
  /\ UNCHANGED <<generationMasks, mouseUpListener, dragVars, isEraseToolDragging,
                 isMaskToolDragging, laneVars, currentlyPlayingNotes, input, output>>

\* generated notes that the masks of PositionRanges cover in part or in whole
LegacyInputs ==
  [pitch : {MIN_PITCH}, position : {0, 1}, duration : {2, 4}, voice : {1}]

LegacySequences == {<<in>> : in \in LegacyInputs}

NextLegacy ==
  \/ \E ins \in LegacySequences : AddAgentNotes(ins, FALSE)
  \/ \E ins \in LegacySequences : SetTempNotes(ins, FALSE)
  \/ \E positionRange \in PositionRanges, pitchRange \in PitchRanges :
       MaskNotesLegacy(positionRange, pitchRange)

SpecLegacy == Init /\ [][NextLegacy]_vars

\* the spans [a, b) a note is cut into at the mask boundaries inside it
Pieces(n, positionRange) ==
  LET cuts == {start(n), end(n)} \cup
              {c \in {positionRange[1], positionRange[2]} : start(n) < c /\ c < end(n)}
  IN {piece \in cuts \X cuts :
        /\ piece[1] < piece[2]
        /\ \A c \in cuts : ~(piece[1] < c /\ c < piece[2])}

\* m is the sub-note of n on the span piece: same pitch and voice, and flagged
\* exactly if the span lies inside the mask
SubNote(m, n, piece, positionRange) ==
  /\ m.pitch = n.pitch
  /\ m.voice = n.voice
  /\ m.position = piece[1]
  /\ m.duration = piece[2] - piece[1]
  /\ m.duration >= 1
  /\ m.isMasked = (piece[1] >= positionRange[1] /\ piece[2] <= positionRange[2])

\* C21: maskNotesLegacy returns, and afterwards a note the mask covers in part
\* is gone from the persistent set, which holds instead one new sub-note for
\* each of the two or three spans the mask boundaries cut [start, end) into,
\* same pitch and voice, only the span inside the mask flagged; a note the
\* mask covers in whole is kept and flagged; and when every note under the
\* mask is covered in whole and flagged already, all are unflagged and the
\* maps are as they were.
C21_LegacySplitMasking ==
  [][\A positionRange \in PositionRanges, pitchRange \in PitchRanges :
       MaskNotesLegacy(positionRange, pitchRange) =>
         LET notes == allNotes(notesMap, tempNotesMap)
             under == {k \in Range(notes) : overlaps(obj[k], positionRange, pitchRange)}
             new == Range(notesMap') \ Range(notes)
         IN /\ raised' = "none"
            /\ IF \A k \in under : covers(obj[k], positionRange) /\ obj[k].isMasked
               THEN /\ \A k \in under : ~obj'[k].isMasked
                    /\ notesMap' = notesMap
                    /\ tempNotesMap' = tempNotesMap
               ELSE \A k \in under :
                      IF covers(obj[k], positionRange)
                      THEN /\ k \in Range(allNotes(notesMap', tempNotesMap'))
                           /\ obj'[k].isMasked
                      ELSE /\ k \notin Range(notesMap')
                           /\ Cardinality(Pieces(obj[k], positionRange)) \in {2, 3}
                           /\ \A piece \in Pieces(obj[k], positionRange) :
                                \E j \in new :
                                  SubNote(obj'[j], obj[k], piece, positionRange)
    ]_vars

(***************************************************************************)
(* Editor: what the agent's notes do to the persistent set.                *)
(***************************************************************************)
\* the entries of a map whose notes have the given source, in map order
OfSource(nm, ob, source) == SelectSeq(nm, LAMBDA k : ob[k].source = source)

\* C22: addAgentNotes(sequence, replace) leaves the USER notes of the
\* persistent set as they were, entries and fields; with replace the AGENT
\* notes afterwards are exactly the notes of sequence, without it they are
\* the AGENT notes of before and the notes of sequence; and clearAgentNotes
\* removes every AGENT note and nothing else.
C22_AgentNotesFrame ==
  [][/\ \A ins \in Sequences1, replace \in BOOLEAN :
          AddAgentNotes(ins, replace) =>
            /\ OfSource(notesMap', obj', USER) = OfSource(notesMap, obj, USER)
            /\ \A k \in Range(OfSource(notesMap, obj, USER)) : obj'[k] = obj[k]
            /\ Range(OfSource(notesMap', obj', AGENT)) =
                 (IF replace THEN {} ELSE Range(OfSource(notesMap, obj, AGENT)))
                 \cup Range(NewIds(ins))
            /\ \A i \in 1 .. Len(ins) : obj'[NewIds(ins)[i]] = AgentNote(NewIds(ins)[i], ins[i])
            /\ \A k \in Range(OfSource(notesMap', obj', AGENT)) \ Range(NewIds(ins)) :
                 obj'[k] = obj[k]
     /\ ClearAgentNotes =>
          /\ notesMap' = OfSource(notesMap, obj, USER)
          /\ OfSource(notesMap', obj', AGENT) = <<>>
          /\ \A k \in Range(notesMap') : obj'[k] = obj[k]
    ]_vars

\* C22 witness: a USER note sits in the persistent set beside an AGENT note
\* that the last step brought in, and that step took another AGENT note out:
\* addAgentNotes with replace has acted on a set of both sources
C22_Witness ==
  /\ undo.undoStack # <<>>
  /\ \E u \in Range(notesMap), a \in Range(notesMap), k \in Ids \ Range(notesMap) :
       /\ obj[u].source = USER
       /\ obj[a].source = AGENT
       /\ NoteIn(Top(undo.undoStack).before, u)
       /\ ~NoteIn(Top(undo.undoStack).before, a)
       /\ NoteIn(Top(undo.undoStack).after, a)
       /\ NoteIn(Top(undo.undoStack).before, k)
       /\ NoteOf(Top(undo.undoStack).before, k).source = AGENT

(***************************************************************************)
(* Interactions: note gestures, any order of mousedown and mouseup.        *)
(***************************************************************************)
\* Interactions.handleNoteMouseDown(note) has no test of a gesture in
\* progress: a mousedown on the dragged note before the mouseup (a second
\* button) calls editor.startNoteDrag() again, overwrites the start fields and
\* adds a second pair of listeners for the note
NoteMouseDownAgain(id) ==
  /\ Event
  /\ mouseUpListener = "note"
  /\ id = dragNote
  /\ Manager(startNoteDrag(undo, notesMap, obj))
  /\ noteDragStartPosition' = obj[id].position
  /\ noteDragStartPitch' = obj[id].pitch
  /\ dragNote' = id
  /\ mouseUpListener' = "noteTwice"
  /\ UNCHANGED <<storeVars, generationMasks, isEraseToolDragging,
                 isMaskToolDragging, laneVars>>

\* a mousemove with both pairs registered: handleNoteDrag(note) runs twice
NoteDragTwice(deltaX, deltaY) ==
  /\ Event
  /\ mouseUpListener = "noteTwice"
  /\ LET ob1 == handleNoteDrag(obj, dragNote, deltaX, deltaY)
         ob2 == handleNoteDrag(ob1, dragNote, deltaX, deltaY)
     IN /\ ob2[dragNote].position >= -MaxLeft
        /\ obj' = ob2
  /\ UNCHANGED <<notesMap, tempNotesMap, nextId, generationMasks, undo,
                 mouseUpListener, dragVars, isEraseToolDragging,
                 isMaskToolDragging, laneVars>>

\* the mouseup with both pairs registered: both mouseUp listeners run, each
\* calls editor.endNoteDrag(note) and removes its pair
NoteMouseUpTwice ==
  /\ Event
  /\ mouseUpListener = "noteTwice"
  /\ LET nm1 == endNoteDrag(notesMap, tempNotesMap, obj, dragNote)
         u1 == completeUndoable(undo, nm1, obj)
         nm2 == endNoteDrag(nm1, tempNotesMap, obj, dragNote)
     IN /\ Store(nm2, tempNotesMap, obj, 0)
        /\ Manager(completeUndoable(u1, nm2, obj))
  /\ dragNote' = 0
  /\ mouseUpListener' = "none"
  /\ noteDragStartPosition' = 0
  /\ noteDragStartPitch' = 0
  /\ UNCHANGED <<nextId, generationMasks, isEraseToolDragging, isMaskToolDragging,
                 laneVars>>

NextPointer ==
  \/ \E scaleIndex \in 0 .. (MAX_PITCH - MIN_PITCH), divisionIndex \in 0 .. (nDivisions - 1) :
       GridClick(scaleIndex, divisionIndex)
  \/ \E id \in Ids : NoteMouseDown(id)
  \/ \E id \in Ids : NoteMouseDownAgain(id)
  \/ \E deltaX \in DeltaXs, deltaY \in DeltaYs : NoteDrag(deltaX, deltaY)
  \/ \E deltaX \in DeltaXs, deltaY \in DeltaYs : NoteDragTwice(deltaX, deltaY)
  \/ NoteMouseUp
  \/ NoteMouseUpTwice

\* the grid and its notes under the pointer, buttons in any order
SpecPointer == Init /\ [][NextPointer]_vars

\* a note gesture is in progress: mouseup listeners of a note are registered
NoteGesture == mouseUpListener \in {"note", "noteTwice"}

\* C23: under note mousedown, mousemove and mouseup events startNoteDrag never
\* calls beginUndoable while a transaction is open; the mouseup after a
\* mousedown calls endNoteDrag once, which is to say that no second mouseUp
\* listener waits beside the first; and the manager is idle whenever no note
\* gesture is in progress.
C23_DragTransactionsPair ==
  /\ [][\A id \in Ids :
          (NoteMouseDown(id) \/ NoteMouseDownAgain(id)) => ~undo.isOpen]_vars
  /\ [](mouseUpListener # "noteTwice")
  /\ [](~NoteGesture => ~undo.isOpen)

(***************************************************************************)
(* Interactions: the mask tool's rectangle, and the tool flags.            *)
(***************************************************************************)
\* Interactions.handleMaskToolMouseDown: x, y is the pointer within the grid
MaskToolMouseDown(x, y) ==
  /\ Tick
  /\ PointerFree
  /\ maskToolDragStartXY' = <<x, y>>
  /\ maskToolDragXY' = <<x, y>>
  /\ isMaskToolDragging' = TRUE
  /\ mouseUpListener' = "maskTool"
  /\ raised' = "none" /\ trimmed' = 0 /\ maskTrip' = NoTrip
  /\ UNCHANGED <<storeVars, generationMasks, undo, dragVars, isEraseToolDragging,
                 laneVars, loopVars, currentlyPlayingNotes, input, output>>

\* Interactions.handleMaskToolDrag: the pointer is deltaX, deltaY pixels from
\* where the button went down
MaskToolDrag(deltaX, deltaY) ==
  /\ Tick
  /\ mouseUpListener = "maskTool"
  /\ maskToolDragXY' = <<deltaX + maskToolDragStartXY[1],
                         deltaY + maskToolDragStartXY[2]>>
  /\ raised' = "none" /\ trimmed' = 0 /\ maskTrip' = NoTrip
  /\ UNCHANGED <<storeVars, generationMasks, undo, mouseUpListener, dragVars,
                 isEraseToolDragging, isMaskToolDragging, laneVars,
                 maskToolDragStartXY, loopVars, currentlyPlayingNotes, input,
                 output>>

\* the rectangle its mouseUp hands to editor.maskNotes
maskToolPositionRange(a, b) ==
  LET startX == IF a[1] <= b[1] THEN a[1] ELSE b[1]
      endX == IF a[1] > b[1] THEN a[1] ELSE b[1]
  IN <<quantizeFloor(startX), quantizeCeil(endX)>>

maskToolValueRange(a, b) ==
  LET startY == IF a[2] <= b[2] THEN a[2] ELSE b[2]
      endY == IF a[2] > b[2] THEN a[2] ELSE b[2]
  IN <<MAX_PITCH - Floor(endY, noteHeight), MAX_PITCH - Floor(startY, noteHeight)>>

\* its mouseUp: editor.maskNotes(positionRange, valueRange), then the flag and
\* the drag fields are reset and the listeners go
MaskToolMouseUp ==
  /\ Tick
  /\ mouseUpListener = "maskTool"
  /\ generationMasks' = maskNotes(generationMasks, allNotes(notesMap, tempNotesMap), obj,
                                  maskToolPositionRange(maskToolDragStartXY, maskToolDragXY),
                                  maskToolValueRange(maskToolDragStartXY, maskToolDragXY))
  /\ Manager(undoable(undo, notesMap, obj, notesMap, obj))
  /\ isMaskToolDragging' = FALSE
  /\ maskToolDragStartXY' = <<0, 0>>
  /\ maskToolDragXY' = <<0, 0>>
  /\ mouseUpListener' = "none"
  /\ raised' = "none" /\ trimmed' = 0 /\ maskTrip' = NoTrip
  /\ UNCHANGED <<storeVars, dragVars, isEraseToolDragging, laneVars, loopVars,
                 currentlyPlayingNotes, input, output>>

\* where the pointer goes down in the grid and how far it is dragged
ToolXs == {0, 1, 3}
ToolYs == {0, 1}
ToolDeltaXs == {-1, 2}
ToolDeltaYs == {0, 1}

NextTools ==
  \/ \E x \in ToolXs, y \in ToolYs : MaskToolMouseDown(x, y)
  \/ \E deltaX \in ToolDeltaXs, deltaY \in ToolDeltaYs : MaskToolDrag(deltaX, deltaY)
  \/ MaskToolMouseUp
  \/ \E v \in MaskVoices, x \in LaneXs : MaskLaneMouseDown(v, x)
  \/ \E deltaX \in LaneDeltaXs : MaskLaneMouseMove(deltaX)
  \/ MaskLaneMouseUp
  \/ \E erase \in BOOLEAN : GridMouseDown(erase)
  \/ GridMouseUp

\* the mask tool, the mask lanes and the erase tool under the pointer
SpecTools == Init /\ [][NextTools]_vars

\* C24: isMaskToolDragging is true only while the mouseup of a mask-tool drag
\* or of a mask-lane drag is still to come, and isEraseToolDragging only while
\* the mouseup of a grid mousedown is: once the mouseup has run and its
\* listener is gone the flag is false again.
C24_ToolFlagsOnlyDuringGesture ==
  /\ isMaskToolDragging => mouseUpListener \in {"maskTool", "maskLane"}
  /\ isEraseToolDragging => mouseUpListener = "grid"

(***************************************************************************)
(* Interactions: the loop markers.                                         *)
(***************************************************************************)
\* _.clamp(postion, editor.totalSixteenths): the upper bound alone
clampLoopPositionAbove(postion) == Min(postion, TOTAL_SIXTEENTHS)

\* clampLoopPosition: _.clamp(postion, 0, editor.totalSixteenths)
clampLoopPosition(postion) == Min(Max(postion, 0), TOTAL_SIXTEENTHS)

\* the position a loop drag asks for: the pointer is deltaX pixels from where
\* the button went down on the marker
loopNextPosition(dragStartPosition, deltaX) ==
  LET deltaPosition == Floor(deltaX, sixteenthWidth)
      deltaQuantized == quantizePosition(deltaPosition)
  IN clampLoopPosition(dragStartPosition + deltaQuantized)

\* Interactions.handleLoopStartMouseDown
LoopStartMouseDown ==
  /\ Tick
  /\ PointerFree
  /\ loopStartDragStartPosition' = loopStart
  /\ mouseUpListener' = "loopStart"
  /\ raised' = "none" /\ trimmed' = 0 /\ maskTrip' = NoTrip
  /\ UNCHANGED <<storeVars, generationMasks, undo, dragVars, isEraseToolDragging,
                 isMaskToolDragging, laneVars, maskToolVars, loopStart, loopEnd,
                 loopEndDragStartPosition, currentlyPlayingNotes, input, output>>

\* Interactions.handleLoopStartDrag
LoopStartDrag(deltaX) ==
  /\ Tick
  /\ mouseUpListener = "loopStart"
  /\ LET nextPosition == loopNextPosition(loopStartDragStartPosition, deltaX)
     IN /\ loopStart' = (IF nextPosition # loopStart /\ nextPosition < loopEnd
                         THEN nextPosition
                         ELSE loopStart)
        /\ output' = [op |-> "handleLoopStartDrag", value |-> nextPosition]
  /\ raised' = "none" /\ trimmed' = 0 /\ maskTrip' = NoTrip
  /\ UNCHANGED <<storeVars, generationMasks, undo, mouseUpListener, dragVars,
                 isEraseToolDragging, isMaskToolDragging, laneVars, maskToolVars,
                 loopEnd, loopStartDragStartPosition, loopEndDragStartPosition,
                 currentlyPlayingNotes, input>>

\* the mouseUp of handleLoopStartMouseDown: the listeners go
LoopStartMouseUp ==
  /\ Tick
  /\ mouseUpListener = "loopStart"
  /\ mouseUpListener' = "none"
  \* the start position is dead until the next mousedown overwrites it
  /\ loopStartDragStartPosition' = 0
  /\ raised' = "none" /\ trimmed' = 0 /\ maskTrip' = NoTrip
  /\ UNCHANGED <<storeVars, generationMasks, undo, dragVars, isEraseToolDragging,
                 isMaskToolDragging, laneVars, maskToolVars, loopStart, loopEnd,
                 loopEndDragStartPosition, currentlyPlayingNotes, input, output>>

\* Interactions.handleLoopEndMouseDown
LoopEndMouseDown ==
  /\ Tick
  /\ PointerFree
  /\ loopEndDragStartPosition' = loopEnd
  /\ mouseUpListener' = "loopEnd"
  /\ raised' = "none" /\ trimmed' = 0 /\ maskTrip' = NoTrip
  /\ UNCHANGED <<storeVars, generationMasks, undo, dragVars, isEraseToolDragging,
                 isMaskToolDragging, laneVars, maskToolVars, loopStart, loopEnd,
                 loopStartDragStartPosition, currentlyPlayingNotes, input, output>>

\* Interactions.handleLoopEndDrag
LoopEndDrag(deltaX) ==
  /\ Tick
  /\ mouseUpListener = "loopEnd"
  /\ LET nextPosition == loopNextPosition(loopEndDragStartPosition, deltaX)
     IN /\ loopEnd' = (IF nextPosition # loopEnd /\ nextPosition > loopStart
                       THEN nextPosition
                       ELSE loopEnd)
        /\ output' = [op |-> "handleLoopEndDrag", value |-> nextPosition]
  /\ raised' = "none" /\ trimmed' = 0 /\ maskTrip' = NoTrip
  /\ UNCHANGED <<storeVars, generationMasks, undo, mouseUpListener, dragVars,
                 isEraseToolDragging, isMaskToolDragging, laneVars, maskToolVars,
                 loopStart, loopStartDragStartPosition, loopEndDragStartPosition,
                 currentlyPlayingNotes, input>>

\* the mouseUp of handleLoopEndMouseDown: the listeners go
LoopEndMouseUp ==
  /\ Tick
  /\ mouseUpListener = "loopEnd"
  /\ mouseUpListener' = "none"
  /\ loopEndDragStartPosition' = 0
  /\ raised' = "none" /\ trimmed' = 0 /\ maskTrip' = NoTrip
  /\ UNCHANGED <<storeVars, generationMasks, undo, dragVars, isEraseToolDragging,
                 isMaskToolDragging, laneVars, maskToolVars, loopStart, loopEnd,
                 loopStartDragStartPosition, currentlyPlayingNotes, input, output>>

\* how far the pointer is dragged from a marker: past either end of the
\* timeline, and by less than a quantize step
LoopDeltaXs == -(TOTAL_SIXTEENTHS + 1) .. (TOTAL_SIXTEENTHS + 1)

NextLoop ==
  \/ LoopStartMouseDown
  \/ \E deltaX \in LoopDeltaXs : LoopStartDrag(deltaX)
  \/ LoopStartMouseUp
  \/ LoopEndMouseDown
  \/ \E deltaX \in LoopDeltaXs : LoopEndDrag(deltaX)
  \/ LoopEndMouseUp

\* the loop markers in order anywhere on the timeline
InitLoop ==
  /\ InitSession
  /\ input = NoInput
  /\ loopStart \in 0 .. TOTAL_SIXTEENTHS
  /\ loopEnd \in 0 .. TOTAL_SIXTEENTHS
  /\ loopStart < loopEnd

\* the loop markers under the pointer
SpecLoop == InitLoop /\ [][NextLoop]_vars

\* the position a drag of deltaX pixels points at, kept on the timeline
LoopTarget(dragStartPosition, deltaX) ==
  LET p == dragStartPosition + Round(deltaX \div sixteenthWidth, quantizeStep) * quantizeStep
  IN IF p < 0 THEN 0 ELSE IF p > TOTAL_SIXTEENTHS THEN TOTAL_SIXTEENTHS ELSE p

\* C25: the loop markers stay in order and on the timeline, 0 <= loopStart <
\* loopEnd <= totalSixteenths, under any interleaving of loop-start and
\* loop-end drags; a drag moves its own marker only, to the position it points
\* at, and a drag that points at or past the other marker moves neither.
C25_LoopMarkersOrdered ==
  /\ [](0 <= loopStart /\ loopStart < loopEnd /\ loopEnd <= TOTAL_SIXTEENTHS)
  /\ [][/\ \A deltaX \in LoopDeltaXs :
             LoopStartDrag(deltaX) =>
               /\ loopEnd' = loopEnd
               /\ loopStart' =
                    (IF LoopTarget(loopStartDragStartPosition, deltaX) < loopEnd
                     THEN LoopTarget(loopStartDragStartPosition, deltaX)
                     ELSE loopStart)
        /\ \A deltaX \in LoopDeltaXs :
             LoopEndDrag(deltaX) =>
               /\ loopStart' = loopStart
               /\ loopEnd' =
                    (IF LoopTarget(loopEndDragStartPosition, deltaX) > loopStart
                     THEN LoopTarget(loopEndDragStartPosition, deltaX)
                     ELSE loopEnd)
       ]_vars

\* C25 witness: with both markers inside the timeline, a drag of the start
\* marker asked for a position at or past the end marker, and the start marker
\* is where it was when the button went down
C25_Witness ==
  /\ mouseUpListener = "loopStart"
  /\ output.op = "handleLoopStartDrag"
  /\ output.value >= loopEnd
  /\ loopStart = loopStartDragStartPosition
  /\ 0 < loopStart
  /\ loopEnd < TOTAL_SIXTEENTHS

====
